---- MODULE Spec2Model ----
(***************************************************************************)
(* Model of heightfield_to_obj: the tile generator (heightfield_to_obj.py) *)
(* and the mesh displacer (apply_heightfield_to_obj.py).                   *)
(*                                                                         *)
(* Numbers.  A Python/numpy float is modelled as a fixed-point number with *)
(* three decimal digits (an integer count of thousandths) or the value     *)
(* NaN.  Arithmetic rounds to the nearest representable value, as IEEE     *)
(* arithmetic does at its own precision.                                   *)
(*                                                                         *)
(* Text.  A string is a sequence of one-character strings; an OBJ file is  *)
(* a sequence of lines, each ending in the newline character.              *)
(***************************************************************************)
EXTENDS Integers, Sequences, FiniteSets, TLC

VARIABLES
    \* ---- generate_tile (heightfield_to_obj.py) ----
    pc,              \* "start" | "done" | "idle"
    res,             \* the res argument: the image is resized to res x res
    h, w,            \* z.shape after the resize
    im,              \* the resized grayscale image, h rows of w pixels 0..255
    tile_size, base_thickness, z_add, target_size, full_field,
    top_faces,       \* the faces list when the top-surface loop has ended
    tile_vertices,   \* the vertex list passed to save_obj
    tile_faces,      \* the face list passed to save_obj
    tile_file,       \* the text save_obj wrote
    \* ---- apply_heightfield_to_obj (apply_heightfield_to_obj.py) ----
    dpc,             \* "start" | "done" | "idle"
    obj_file,        \* text of the input OBJ file
    heightmap,       \* the grayscale heightmap image, rows of pixels 0..255
    displacement_scale,
    vertices, faces, uvs,     \* what load_obj returned
    displaced_vertices,       \* the running displaced-vertex array
    error,           \* "none" or the kind of the exception that ended the run
    failed_at,       \* "none" or the statement that raised
    output_file,     \* NoFile, or the lines written to output_path
    \* ---- save_obj / load_obj round trip ----
    iopc,            \* "start" | "saved" | "loaded" | "failed" | "idle"
    io_vertices, io_faces,    \* the mesh handed to save_obj
    io_file,         \* NoFile, or the lines save_obj wrote
    io_error,
    rt_vertices, rt_faces, rt_uvs,   \* what load_obj read back
    \* ---- UV sampling (apply_heightfield_to_obj lines 104-114) ----
    spc,             \* "start" | "sampled" | "idle"
    s_w_map, s_h_map, s_u, s_v,
    s_u_idx, s_v_idx

tileVars == <<pc, res, h, w, im, tile_size, base_thickness, z_add, target_size,
              full_field, top_faces, tile_vertices, tile_faces, tile_file>>
dispVars == <<dpc, obj_file, heightmap, displacement_scale, vertices, faces, uvs,
              displaced_vertices, error, failed_at, output_file>>
ioVars == <<iopc, io_vertices, io_faces, io_file, io_error,
            rt_vertices, rt_faces, rt_uvs>>
sampleVars == <<spc, s_w_map, s_h_map, s_u, s_v, s_u_idx, s_v_idx>>
vars == <<tileVars, dispVars, ioVars, sampleVars>>

-----------------------------------------------------------------------------
(* Bounds of the model *)

MaxRes == 4        \* res ranges over 1..MaxRes
MaxFaces == 2      \* an input mesh of the displacer has at most MaxFaces faces
MaxIOLen == 2      \* a round-trip mesh has at most MaxIOLen vertices / faces
MaxMap == 4        \* sampled heightmaps are at most MaxMap x MaxMap
UVDen == 4         \* sampled u, v range over k/UVDen, k in 0..UVDen

-----------------------------------------------------------------------------
(* Floating-point numbers *)

FUnit == 10 * 10 * 10

Num(n) == [k |-> "num", v |-> n]
NaN == [k |-> "nan", v |-> 0]
IsNaN(x) == x.k = "nan"
F(n) == Num(n * FUnit)

RoundDiv(n, d) ==
    IF n >= 0 THEN (2 * n + d) \div (2 * d) ELSE -((2 * (-n) + d) \div (2 * d))

FAdd(a, b) == IF IsNaN(a) \/ IsNaN(b) THEN NaN ELSE Num(a.v + b.v)
FSub(a, b) == IF IsNaN(a) \/ IsNaN(b) THEN NaN ELSE Num(a.v - b.v)
FNeg(a) == IF IsNaN(a) THEN NaN ELSE Num(-a.v)
FMul(a, b) == IF IsNaN(a) \/ IsNaN(b) THEN NaN ELSE Num(RoundDiv(a.v * b.v, FUnit))

\* Python float division; the callers below never divide by zero.
FDiv(a, b) ==
    IF IsNaN(a) \/ IsNaN(b) THEN NaN
    ELSE IF b.v > 0 THEN Num(RoundDiv(a.v * FUnit, b.v))
    ELSE Num(RoundDiv(-(a.v * FUnit), -b.v))

\* numpy float division: 0/0 is nan (with a RuntimeWarning, not an exception).
\* A nonzero value is never divided by zero in this program: the only numpy
\* division by a possibly-zero value divides a cross product by its own norm.
NpDiv(a, b) ==
    IF IsNaN(a) \/ IsNaN(b) THEN NaN
    ELSE IF b.v = 0 THEN NaN
    ELSE FDiv(a, b)

\* == on floats: nan is not equal to anything
FEq(a, b) == ~IsNaN(a) /\ ~IsNaN(b) /\ a.v = b.v

\* int(x): truncation toward zero
FInt(x) == IF x.v >= 0 THEN x.v \div FUnit ELSE -((-x.v) \div FUnit)

RECURSIVE ISqrtIn(_, _, _)
ISqrtIn(n, lo, hi) ==
    IF lo >= hi THEN lo
    ELSE LET mid == (lo + hi + 1) \div 2
         IN IF mid <= n \div mid THEN ISqrtIn(n, mid, hi) ELSE ISqrtIn(n, lo, mid - 1)

\* nearest integer to the square root of n >= 0
ISqrt(n) ==
    LET r == ISqrtIn(n, 0, n)
    IN IF n - r * r <= r THEN r ELSE r + 1

FSqrt(a) == IF IsNaN(a) THEN NaN ELSE Num(ISqrt(a.v * FUnit))

-----------------------------------------------------------------------------
(* Text: formatting and parsing *)

Digits == <<"0", "1", "2", "3", "4", "5", "6", "7", "8", "9">>
DigitChar(d) == Digits[d + 1]
IsDigit(c) == \E d \in 1..10 : Digits[d] = c
DigitVal(c) == (CHOOSE d \in 1..10 : Digits[d] = c) - 1

RECURSIVE FormatNat(_)
FormatNat(n) ==
    IF n < 10 THEN <<DigitChar(n)>>
    ELSE FormatNat(n \div 10) \o <<DigitChar(n % 10)>>

\* f"{n}" of an int
FormatInt(n) == IF n < 0 THEN <<"-">> \o FormatNat(-n) ELSE FormatNat(n)

RECURSIVE StripZeros(_)
StripZeros(s) ==
    IF Len(s) > 1 /\ s[Len(s)] = "0" THEN StripZeros(SubSeq(s, 1, Len(s) - 1)) ELSE s

\* f"{x}" of a float: the shortest decimal that reads back as x, with at
\* least one fractional digit; "nan" for a NaN
FormatFloat(x) ==
    IF IsNaN(x) THEN <<"n", "a", "n">>
    ELSE LET a == IF x.v < 0 THEN -x.v ELSE x.v
             f == a % FUnit
             frac == <<DigitChar(f \div 100), DigitChar((f \div 10) % 10), DigitChar(f % 10)>>
         IN (IF x.v < 0 THEN <<"-">> ELSE <<>>)
            \o FormatNat(a \div FUnit) \o <<".">> \o StripZeros(frac)

RECURSIVE ParseNat(_, _)
ParseNat(s, acc) ==
    IF s = <<>> THEN acc ELSE ParseNat(Tail(s), acc * 10 + DigitVal(Head(s)))

\* int(s) for an optionally signed run of decimal digits
ParseInt(s) ==
    IF s # <<>> /\ Head(s) = "-" THEN -ParseNat(Tail(s), 0) ELSE ParseNat(s, 0)

RECURSIVE IndexOf(_, _, _)
IndexOf(s, c, i) ==
    IF i > Len(s) THEN 0 ELSE IF s[i] = c THEN i ELSE IndexOf(s, c, i + 1)

\* float(s) for "nan" or an optionally signed decimal with at most three
\* fractional digits
ParseFloat(s) ==
    IF s = <<"n", "a", "n">> THEN NaN
    ELSE LET neg == s # <<>> /\ Head(s) = "-"
             body == IF neg THEN Tail(s) ELSE s
             dot == IndexOf(body, ".", 1)
             ip == IF dot = 0 THEN body ELSE SubSeq(body, 1, dot - 1)
             fp == IF dot = 0 THEN <<>> ELSE SubSeq(body, dot + 1, Len(body))
             fp3 == SubSeq(fp \o <<"0", "0", "0">>, 1, 3)
             mag == ParseNat(ip, 0) * FUnit + ParseNat(fp3, 0)
         IN Num(IF neg THEN -mag ELSE mag)

IsSpace(c) == c = " " \/ c = "\n"

RECURSIVE SplitWS(_, _, _)
\* str.split(): the maximal runs of non-whitespace characters
SplitWS(s, cur, acc) ==
    IF s = <<>> THEN (IF cur = <<>> THEN acc ELSE Append(acc, cur))
    ELSE IF IsSpace(Head(s))
         THEN SplitWS(Tail(s), <<>>, IF cur = <<>> THEN acc ELSE Append(acc, cur))
         ELSE SplitWS(Tail(s), Append(cur, Head(s)), acc)

\* v.split('/')[0]: the text before the first slash
BeforeSlash(s) ==
    LET i == IndexOf(s, "/", 1)
    IN IF i = 0 THEN s ELSE SubSeq(s, 1, i - 1)

RECURSIVE Flatten(_)
Flatten(ss) == IF ss = <<>> THEN <<>> ELSE Head(ss) \o Flatten(Tail(ss))

NoFile == <<"no file">>

Space == <<" ">>
Newline == <<"\n">>

\* f"v {v[0]} {v[1]} {v[2]}\n"
VertexLine(v) ==
    <<"v">> \o Space \o FormatFloat(v[1]) \o Space \o FormatFloat(v[2])
            \o Space \o FormatFloat(v[3]) \o Newline

\* FaceLine with the indices written as they are, 0-based
FaceLine_ZeroBased(face) ==
    <<"f">> \o Space \o FormatInt(face[1]) \o Space \o FormatInt(face[2])
            \o Space \o FormatInt(face[3]) \o Space \o FormatInt(face[4]) \o Newline

\* f"f {face[0]+1} {face[1]+1} {face[2]+1} {face[3]+1}\n"
FaceLine(face) ==
    <<"f">> \o Space \o FormatInt(face[1] + 1) \o Space \o FormatInt(face[2] + 1)
            \o Space \o FormatInt(face[3] + 1) \o Space \o FormatInt(face[4] + 1) \o Newline

-----------------------------------------------------------------------------
(* heightfield_to_obj.py *)

MaxPixel == 255
DefaultTileSize == 100
DefaultBaseThickness == 3
DefaultTargetSize == 5

\* save_obj of heightfield_to_obj.py: every face generate_tile builds is a quad
tile_save_obj(vs, fs) ==
    [i \in 1..Len(vs) |-> VertexLine(vs[i])] \o [j \in 1..Len(fs) |-> FaceLine(fs[j])]

\* np.cos / np.sin of np.radians(angle_degrees), for the quarter turns
CosDeg(a) == IF a % 180 = 0 THEN (IF a % 360 = 0 THEN F(1) ELSE F(-1)) ELSE F(0)
SinDeg(a) == IF a % 180 = 0 THEN F(0) ELSE (IF a % 360 = 90 THEN F(1) ELSE F(-1))

rotate_x(vs, angle_degrees) ==
    LET cos_angle == CosDeg(angle_degrees)
        sin_angle == SinDeg(angle_degrees)
    IN [i \in 1..Len(vs) |->
          LET x == vs[i][1]
              y == vs[i][2]
              z == vs[i][3]
          IN <<x,
               FSub(FMul(y, cos_angle), FMul(z, sin_angle)),
               FAdd(FMul(y, sin_angle), FMul(z, cos_angle))>>]

\* z = np.asarray(im) / 255.0; z *= base_thickness; z += z_add
HeightArray(image, bt, za) ==
    [y \in 1..Len(image) |-> [x \in 1..Len(image[y]) |->
        FAdd(FMul(FDiv(F(image[y][x]), F(MaxPixel)), bt), za)]]

\* lines 81-84: one vertex per grid cell, row-major
TopVertices(nh, nw, scale_x, scale_y, z) ==
    [k \in 1..(nh * nw) |->
        LET y == (k - 1) \div nw
            x == (k - 1) % nw
        IN <<FMul(F(x), scale_x), FMul(F(y), scale_y), z[y + 1][x + 1]>>]

\* line 89: the base layer on the same grid
BaseVertices(nh, nw, scale_x, scale_y, bt) ==
    [k \in 1..(nh * nw) |->
        LET y == (k - 1) \div nw
            x == (k - 1) % nw
        IN <<FMul(F(x), scale_x), FMul(F(y), scale_y), FNeg(bt)>>]

\* lines 94-99
BottomCorners(ts, bt) ==
    << <<F(0), F(0), FNeg(bt)>>, <<ts, F(0), FNeg(bt)>>,
       <<ts, ts, FNeg(bt)>>, <<F(0), ts, FNeg(bt)>> >>

\* BuildVertices without the four bottom-corner vertices
BuildVertices_NoCorners(nh, nw, ts, bt, z, full) ==
    LET scale_x == FDiv(ts, F(nw))
        scale_y == FDiv(ts, F(nh))
        top == TopVertices(nh, nw, scale_x, scale_y, z)
    IN IF full THEN top \o BaseVertices(nh, nw, scale_x, scale_y, bt) ELSE top

\* lines 81-101: the vertex list before scaling
BuildVertices(nh, nw, ts, bt, z, full) ==
    LET scale_x == FDiv(ts, F(nw))
        scale_y == FDiv(ts, F(nh))
        top == TopVertices(nh, nw, scale_x, scale_y, z)
    IN IF full
       THEN top \o BaseVertices(nh, nw, scale_x, scale_y, bt) \o BottomCorners(ts, bt)
       ELSE top

\* TopFaces with the loops running over range(h) and range(w)
TopFaces_FullRange(nh, nw) ==
    [k \in 1..(nh * nw) |->
        LET y == (k - 1) \div nw
            x == (k - 1) % nw
            i == y * nw + x
        IN <<i, i + 1, i + nw + 1, i + nw>>]

\* lines 104-108: for y in range(h - 1): for x in range(w - 1)
TopFaces(nh, nw) ==
    [k \in 1..((nh - 1) * (nw - 1)) |->
        LET y == (k - 1) \div (nw - 1)
            x == (k - 1) % (nw - 1)
            i == y * nw + x
        IN <<i, i + 1, i + nw + 1, i + nw>>]

\* CellSides with the right-side test written x == w - 1
CellSides_RightOff(y, x, nh, nw) ==
    LET i == y * nw + x
        base_i == i + nh * nw
    IN (IF y = 0 THEN << <<i, i + 1, base_i + 1, base_i>> >> ELSE <<>>)
       \o (IF y = nh - 2
           THEN << <<i + nw, i + nw + 1, base_i + nw + 1, base_i + nw>> >> ELSE <<>>)
       \o (IF x = 0 THEN << <<i, i + nw, base_i + nw, base_i>> >> ELSE <<>>)
       \o (IF x = nw - 1
           THEN << <<i + 1, i + nw + 1, base_i + nw + 1, base_i + 1>> >> ELSE <<>>)

\* lines 115-132: the quads one cell of the side loop appends, in order
CellSides(y, x, nh, nw) ==
    LET i == y * nw + x
        base_i == i + nh * nw
    IN (IF y = 0 THEN << <<i, i + 1, base_i + 1, base_i>> >> ELSE <<>>)
       \o (IF y = nh - 2
           THEN << <<i + nw, i + nw + 1, base_i + nw + 1, base_i + nw>> >> ELSE <<>>)
       \o (IF x = 0 THEN << <<i, i + nw, base_i + nw, base_i>> >> ELSE <<>>)
       \o (IF x = nw - 2
           THEN << <<i + 1, i + nw + 1, base_i + nw + 1, base_i + 1>> >> ELSE <<>>)

\* lines 113-132: for y in range(h - 1): for x in range(w - 1)
SideFaces(nh, nw) ==
    Flatten([k \in 1..((nh - 1) * (nw - 1)) |->
               CellSides((k - 1) \div (nw - 1), (k - 1) % (nw - 1), nh, nw)])

\* BottomQuad counting from len(vertices) - 3
BottomQuad_OffByOne(n) == <<n - 3, n - 2, n - 1, n>>

\* lines 135-140: n is len(vertices)
BottomQuad(n) == <<n - 4, n - 3, n - 2, n - 1>>

\* lines 104-141: the face list
BuildFaces(nh, nw, n, full) ==
    IF full
    THEN TopFaces(nh, nw) \o SideFaces(nh, nw) \o <<BottomQuad(n)>>
    ELSE TopFaces(nh, nw)

\* lines 145-150
ScaleVertices(vs, ts, target) ==
    LET max_dimension == IF ts.v >= ts.v THEN ts ELSE ts
        scale_factor == FDiv(target, max_dimension)
    IN [i \in 1..Len(vs) |->
          <<FMul(vs[i][1], scale_factor), FMul(vs[i][2], scale_factor),
            FMul(vs[i][3], scale_factor)>>]

ImagePatterns == {"black", "white", "checker"}

\* the resized image np.asarray(im) sees: nh rows of nw pixels
ImageOf(p, nh, nw) ==
    [y \in 1..nh |-> [x \in 1..nw |->
        IF p = "black" THEN 0
        ELSE IF p = "white" THEN MaxPixel
        ELSE IF (x + y) % 2 = 0 THEN 0 ELSE MaxPixel]]

TileIdle ==
    /\ pc = "idle" /\ res = 0 /\ h = 0 /\ w = 0 /\ im = <<>>
    /\ tile_size = F(0) /\ base_thickness = F(0) /\ z_add = F(0) /\ target_size = F(0)
    /\ full_field = FALSE
    /\ top_faces = <<>> /\ tile_vertices = <<>> /\ tile_faces = <<>> /\ tile_file = NoFile

\* generate_tile is about to run: the image has been opened and resized to
\* res x res (lines 58-67), and the arguments are bound
TileInit ==
    /\ pc = "start"
    /\ res \in 1..MaxRes
    /\ h = res /\ w = res
    /\ \E p \in ImagePatterns : im = ImageOf(p, res, res)
    /\ tile_size \in {F(DefaultTileSize), F(12)}
    /\ base_thickness = F(DefaultBaseThickness)
    /\ z_add \in {F(0), F(1)}
    /\ target_size = F(DefaultTargetSize)
    /\ full_field \in BOOLEAN
    /\ top_faces = <<>> /\ tile_vertices = <<>> /\ tile_faces = <<>> /\ tile_file = NoFile

generate_tile ==
    /\ pc = "start"
    /\ LET z == HeightArray(im, base_thickness, z_add)
           vs == BuildVertices(h, w, tile_size, base_thickness, z, full_field)
           fs == BuildFaces(h, w, Len(vs), full_field)
           final == rotate_x(ScaleVertices(vs, tile_size, target_size), -90)
       IN /\ top_faces' = TopFaces(h, w)
          /\ tile_vertices' = final
          /\ tile_faces' = fs
          /\ tile_file' = tile_save_obj(final, fs)
    /\ pc' = "done"
    /\ UNCHANGED <<res, h, w, im, tile_size, base_thickness, z_add, target_size, full_field>>

-----------------------------------------------------------------------------
(* apply_heightfield_to_obj.py *)

HeightmapMax == 255

\* Python / numpy indexing of a sequence of length n by k: a negative k counts
\* from the end, and only k outside -n..n-1 raises IndexError
InRange(n, k) == -n <= k /\ k < n
PyPos(n, k) == IF k >= 0 THEN k + 1 ELSE n + k + 1

RECURSIVE LoadLines(_, _, _)
LoadLines(file, n, acc) ==
    IF n > Len(file) THEN acc
    ELSE LET parts == SplitWS(file[n], <<>>, <<>>)
         IN IF parts = <<>> THEN LoadLines(file, n + 1, acc)
            ELSE IF parts[1] = <<"v">>
            THEN LoadLines(file, n + 1,
                   [acc EXCEPT !.vertices = Append(@,
                       <<ParseFloat(parts[2]), ParseFloat(parts[3]), ParseFloat(parts[4])>>)])
            ELSE IF parts[1] = <<"f">>
            THEN LoadLines(file, n + 1,
                   [acc EXCEPT !.faces = Append(@,
                       [j \in 1..(Len(parts) - 1) |-> ParseInt(BeforeSlash(parts[j + 1])) - 1])])
            ELSE IF parts[1] = <<"v", "t">>
            THEN LoadLines(file, n + 1,
                   [acc EXCEPT !.uvs = Append(@, <<ParseFloat(parts[2]), ParseFloat(parts[3])>>)])
            ELSE LoadLines(file, n + 1, acc)

\* load_obj on a file whose v, vt and f lines carry well-formed number tokens
load_obj(file) == LoadLines(file, 1, [vertices |-> <<>>, faces |-> <<>>, uvs |-> <<>>])

RECURSIVE SaveFaces(_, _, _)
SaveFaces(fs, j, lines) ==
    IF j > Len(fs) THEN [file |-> lines, error |-> "none"]
    ELSE IF Len(fs[j]) < 4 THEN [file |-> lines, error |-> "IndexError"]
    ELSE SaveFaces(fs, j + 1, Append(lines, FaceLine(fs[j])))

\* save_obj of apply_heightfield_to_obj.py: the file is opened (created or
\* truncated) first, so what was written before an exception stays in it
save_obj(vs, fs) == SaveFaces(fs, 1, [i \in 1..Len(vs) |-> VertexLine(vs[i])])

VSub(a, b) == <<FSub(a[1], b[1]), FSub(a[2], b[2]), FSub(a[3], b[3])>>
VAdd(a, b) == <<FAdd(a[1], b[1]), FAdd(a[2], b[2]), FAdd(a[3], b[3])>>
VScale(a, s) == <<FMul(a[1], s), FMul(a[2], s), FMul(a[3], s)>>

\* np.cross
Cross(a, b) ==
    <<FSub(FMul(a[2], b[3]), FMul(a[3], b[2])),
      FSub(FMul(a[3], b[1]), FMul(a[1], b[3])),
      FSub(FMul(a[1], b[2]), FMul(a[2], b[1]))>>

\* np.linalg.norm
Norm(a) == FSqrt(FAdd(FAdd(FMul(a[1], a[1]), FMul(a[2], a[2])), FMul(a[3], a[3])))

calculate_face_normal(v0, v1, v2) ==
    LET edge1 == VSub(v1, v0)
        edge2 == VSub(v2, v0)
        normal == Cross(edge1, edge2)
        n == Norm(normal)
    IN <<NpDiv(normal[1], n), NpDiv(normal[2], n), NpDiv(normal[3], n)>>

\* line 111: u_idx = int(u * (w_map - 1))
UIdx(u, w_map) == FInt(FMul(u, F(w_map - 1)))

\* VIdx without the flip of the V axis
VIdx_NoFlip(v, h_map) == FInt(FMul(v, F(h_map - 1)))

\* line 112: v_idx = int((1 - v) * (h_map - 1))
VIdx(v, h_map) == FInt(FMul(FSub(F(1), v), F(h_map - 1)))

\* line 91: heightmap_array = np.array(heightmap) / 255.0
HeightmapArray(image) ==
    [y \in 1..Len(image) |-> [x \in 1..Len(image[y]) |->
        FDiv(F(image[y][x]), F(HeightmapMax))]]

RECURSIVE DisplaceIndices(_, _, _, _, _)
\* lines 104-118: the loop over the indices of one face.  m holds the loaded
\* mesh, the heightmap array and the scale.
DisplaceIndices(m, face, j, normal, dv) ==
    IF j > Len(face) THEN [dv |-> dv, error |-> "none", at |-> "none"]
    ELSE LET i == face[j]
             h_map == Len(m.hm)
             w_map == Len(m.hm[1])
         IN IF ~InRange(Len(m.uvs), i)
            THEN [dv |-> dv, error |-> "IndexError", at |-> "uvs[i]"]
            ELSE LET uv == m.uvs[PyPos(Len(m.uvs), i)]
                     u_idx == UIdx(uv[1], w_map)
                     v_idx == VIdx(uv[2], h_map)
                 IN IF ~(InRange(h_map, v_idx) /\ InRange(w_map, u_idx))
                    THEN [dv |-> dv, error |-> "IndexError", at |-> "heightmap_array[v_idx, u_idx]"]
                    ELSE IF ~InRange(Len(dv), i)
                    THEN [dv |-> dv, error |-> "IndexError", at |-> "displaced_vertices[i]"]
                    ELSE LET height_value == m.hm[PyPos(h_map, v_idx)][PyPos(w_map, u_idx)]
                             displacement == VScale(VScale(normal, height_value), m.scale)
                             p == PyPos(Len(dv), i)
                         IN DisplaceIndices(m, face, j + 1, normal,
                                [dv EXCEPT ![p] = VAdd(dv[p], displacement)])

RECURSIVE DisplaceFaces(_, _, _)
\* lines 96-118: the loop over the faces
DisplaceFaces(m, f, dv) ==
    IF f > Len(m.faces) THEN [dv |-> dv, error |-> "none", at |-> "none"]
    ELSE LET face == m.faces[f]
             n == Len(m.vertices)
         IN IF Len(face) < 3
            THEN [dv |-> dv, error |-> "IndexError", at |-> "face[2]"]
            ELSE IF \E j \in 1..3 : ~InRange(n, face[j])
            THEN [dv |-> dv, error |-> "IndexError", at |-> "vertices[idx]"]
            ELSE LET normal == calculate_face_normal(m.vertices[PyPos(n, face[1])],
                                                     m.vertices[PyPos(n, face[2])],
                                                     m.vertices[PyPos(n, face[3])])
                     r == DisplaceIndices(m, face, 1, normal, dv)
                 IN IF r.error # "none" THEN r ELSE DisplaceFaces(m, f + 1, r.dv)

V3(x, y, z) == <<F(x), F(y), F(z)>>
UV(a, b) == <<Num(a), Num(b)>>

\* vertex positions of the input meshes: a unit square, a strip whose first
\* three vertices are collinear, and a tilted quad (normal (0, -0.8, 0.6))
DispVertexLists ==
    { <<V3(0, 0, 0), V3(1, 0, 0), V3(1, 1, 0), V3(0, 1, 0)>>,
      <<V3(0, 0, 0), V3(1, 0, 0), V3(2, 0, 0), V3(0, 1, 0)>>,
      <<V3(0, 0, 0), V3(1, 0, 0), V3(0, 3, 4), V3(1, 3, 4)>> }

\* vt lists: one per vertex, one short, one long
DispUVLists ==
    { <<UV(0, 0), UV(1000, 0), UV(1000, 1000), UV(0, 1000)>>,
      <<UV(0, 0), UV(1000, 0), UV(500, 500)>>,
      <<UV(0, 0), UV(1000, 0), UV(1000, 1000), UV(0, 1000), UV(500, 250)>> }

\* f lines, as the 1-based indices written in the file
DispFaceChoices ==
    { <<1, 2, 3, 4>>, <<2, 3, 4, 1>>, <<1, 2, 3>>,
      <<0, 1, 2, 3>>, <<1, 2, 3, 5>>, <<1, 2, 6, 4>> }

DispHeightmaps ==
    { << <<0, 51, 102>>, <<255, 204, 153>> >>, << <<255>> >> }

SeqsUpTo(S, n) == UNION {[1..k -> S] : k \in 0..n}

VtLine(uv) == <<"v", "t">> \o Space \o FormatFloat(uv[1]) \o Space \o FormatFloat(uv[2]) \o Newline

RECURSIVE FaceTokens(_, _, _)
FaceTokens(fi, j, slashes) ==
    IF j > Len(fi) THEN <<>>
    ELSE Space \o FormatInt(fi[j])
         \o (IF slashes THEN <<"/">> \o FormatInt(fi[j]) ELSE <<>>)
         \o FaceTokens(fi, j + 1, slashes)

\* an OBJ file as load_obj reads it: v lines, vt lines, a blank line, a
\* comment line, then f lines "f i ..." or "f i/t ..."
ObjText(vs, uvl, fis, slashes) ==
    [i \in 1..Len(vs) |-> VertexLine(vs[i])]
    \o [i \in 1..Len(uvl) |-> VtLine(uvl[i])]
    \o <<Newline, <<"#">> \o Space \o <<"f">> \o Newline>>
    \o [i \in 1..Len(fis) |-> <<"f">> \o FaceTokens(fis[i], 1, slashes) \o Newline]

DispIdle ==
    /\ dpc = "idle" /\ obj_file = NoFile /\ heightmap = <<>> /\ displacement_scale = F(0)
    /\ vertices = <<>> /\ faces = <<>> /\ uvs = <<>> /\ displaced_vertices = <<>>
    /\ error = "none" /\ failed_at = "none" /\ output_file = NoFile

DispInit ==
    /\ dpc = "start"
    /\ \E vs \in DispVertexLists, uvl \in DispUVLists,
          fis \in SeqsUpTo(DispFaceChoices, MaxFaces), slashes \in BOOLEAN :
            obj_file = ObjText(vs, uvl, fis, slashes)
    /\ heightmap \in DispHeightmaps
    /\ displacement_scale \in {F(1), Num(10)}
    /\ vertices = <<>> /\ faces = <<>> /\ uvs = <<>> /\ displaced_vertices = <<>>
    /\ error = "none" /\ failed_at = "none" /\ output_file = NoFile

apply_heightfield_to_obj ==
    /\ dpc = "start"
    /\ LET mesh == load_obj(obj_file)
           m == [vertices |-> mesh.vertices, faces |-> mesh.faces, uvs |-> mesh.uvs,
                 hm |-> HeightmapArray(heightmap), scale |-> displacement_scale]
           r == DisplaceFaces(m, 1, mesh.vertices)
           s == save_obj(r.dv, mesh.faces)
       IN /\ vertices' = mesh.vertices
          /\ faces' = mesh.faces
          /\ uvs' = mesh.uvs
          /\ displaced_vertices' = r.dv
          /\ IF r.error # "none"
             THEN /\ error' = r.error
                  /\ failed_at' = r.at
                  /\ output_file' = NoFile
             ELSE /\ error' = s.error
                  /\ failed_at' = IF s.error = "none" THEN "none" ELSE "save_obj"
                  /\ output_file' = s.file
    /\ dpc' = "done"
    /\ UNCHANGED <<obj_file, heightmap, displacement_scale>>

-----------------------------------------------------------------------------
(* save_obj then load_obj *)

IOVertexChoices ==
    { V3(0, 0, 0),
      <<Num(1500), Num(-2000), Num(125)>>,
      <<Num(-1), Num(10000), Num(3250)>>,
      <<NaN, F(0), F(1)>> }

IOFaceChoices ==
    { <<0, 1, 2, 3>>, <<9, 10, 11, 12>>, <<-1, 0, 1, 2>>, <<0, 1, 2>>, <<0, 1, 2, 3, 4>> }

IOIdle ==
    /\ iopc = "idle" /\ io_vertices = <<>> /\ io_faces = <<>> /\ io_file = NoFile
    /\ io_error = "none" /\ rt_vertices = <<>> /\ rt_faces = <<>> /\ rt_uvs = <<>>

IOInit ==
    /\ iopc = "start"
    /\ io_vertices \in SeqsUpTo(IOVertexChoices, MaxIOLen)
    /\ io_faces \in SeqsUpTo(IOFaceChoices, MaxIOLen)
    /\ io_file = NoFile /\ io_error = "none"
    /\ rt_vertices = <<>> /\ rt_faces = <<>> /\ rt_uvs = <<>>

Save ==
    /\ iopc = "start"
    /\ LET s == save_obj(io_vertices, io_faces)
       IN /\ io_file' = s.file
          /\ io_error' = s.error
          /\ iopc' = IF s.error = "none" THEN "saved" ELSE "failed"
    /\ UNCHANGED <<io_vertices, io_faces, rt_vertices, rt_faces, rt_uvs>>

Load ==
    /\ iopc = "saved"
    /\ LET mesh == load_obj(io_file)
       IN /\ rt_vertices' = mesh.vertices
          /\ rt_faces' = mesh.faces
          /\ rt_uvs' = mesh.uvs
    /\ iopc' = "loaded"
    /\ UNCHANGED <<io_vertices, io_faces, io_file, io_error>>

-----------------------------------------------------------------------------
(* UV sampling *)

SampleIdle ==
    /\ spc = "idle" /\ s_w_map = 0 /\ s_h_map = 0 /\ s_u = F(0) /\ s_v = F(0)
    /\ s_u_idx = 0 /\ s_v_idx = 0

UVValues == {Num(RoundDiv(k * FUnit, UVDen)) : k \in 0..UVDen}

SampleInit ==
    /\ spc = "start"
    /\ s_w_map \in 1..MaxMap
    /\ s_h_map \in 1..MaxMap
    /\ s_u \in UVValues
    /\ s_v \in UVValues
    /\ s_u_idx = 0 /\ s_v_idx = 0

\* lines 111-112 for one uv on a heightmap of shape (s_h_map, s_w_map)
SampleUV ==
    /\ spc = "start"
    /\ s_u_idx' = UIdx(s_u, s_w_map)
    /\ s_v_idx' = VIdx(s_v, s_h_map)
    /\ spc' = "sampled"
    /\ UNCHANGED <<s_w_map, s_h_map, s_u, s_v>>

-----------------------------------------------------------------------------
(* Specifications *)

Init == TileInit /\ DispIdle /\ IOIdle /\ SampleIdle
Next == generate_tile /\ UNCHANGED <<dispVars, ioVars, sampleVars>>
Spec == Init /\ [][Next]_vars

DisplaceInit == DispInit /\ TileIdle /\ IOIdle /\ SampleIdle
DisplaceNext == apply_heightfield_to_obj /\ UNCHANGED <<tileVars, ioVars, sampleVars>>
SpecDisplace == DisplaceInit /\ [][DisplaceNext]_vars

RoundTripInit == IOInit /\ TileIdle /\ DispIdle /\ SampleIdle
RoundTripNext ==
    \/ Save /\ UNCHANGED <<tileVars, dispVars, sampleVars>>
    \/ Load /\ UNCHANGED <<tileVars, dispVars, sampleVars>>
SpecRoundTrip == RoundTripInit /\ [][RoundTripNext]_vars

SamplingInit == SampleInit /\ TileIdle /\ DispIdle /\ IOIdle
SamplingNext == SampleUV /\ UNCHANGED <<tileVars, dispVars, ioVars>>
SpecSampling == SamplingInit /\ [][SamplingNext]_vars

-----------------------------------------------------------------------------
(* Properties of generate_tile, checked under Spec *)

TileIndicesValid ==
    \A j \in 1..Len(tile_faces) : \A k \in 1..Len(tile_faces[j]) :
        0 <= tile_faces[j][k] /\ tile_faces[j][k] < Len(tile_vertices)

\* C1: on a grid with w >= 2 and h >= 2, generate_tile emits exactly
\* (w-1)*(h-1) top-surface quads, and the vertex list it saves has w*h
\* entries when full_field is false and 2*w*h + 4 entries when it is true.
C1_TileCounts ==
    (pc = "done" /\ w >= 2 /\ h >= 2) =>
        /\ Len(top_faces) = (w - 1) * (h - 1)
        /\ \A j \in 1..Len(top_faces) : Len(top_faces[j]) = 4
        /\ SubSeq(tile_faces, 1, Len(top_faces)) = top_faces
        /\ Len(tile_vertices) = IF full_field THEN 2 * w * h + 4 ELSE w * h

C1_Witness == pc = "done" /\ w >= 3 /\ h >= 3 /\ full_field

C6_Original ==
    (pc = "done" /\ (w = 1 \/ h = 1)) =>
        /\ Len(top_faces) = 0
        /\ TileIndicesValid
        /\ Len(tile_vertices) = w * h

\* C6 amended: on a degenerate grid generate_tile emits no top-surface face,
\* every saved face index refers to an existing vertex, and the saved vertex
\* count is w*h when full_field is false and 2*w*h + 4 when it is true.
C6_Degenerate ==
    (pc = "done" /\ (w = 1 \/ h = 1)) =>
        /\ Len(top_faces) = 0
        /\ TileIndicesValid
        /\ Len(tile_vertices) = IF full_field THEN 2 * w * h + 4 ELSE w * h

C6_Witness == pc = "done" /\ w = 1 /\ h = 1 /\ full_field /\ Len(tile_faces) = 1

\* the unordered pair of the k-th and the next vertex index around a face
EdgeOf(face, k) == {face[k], face[(k % Len(face)) + 1]}

\* C9: in full-solid mode with w >= 2 and h >= 2 the saved faces form a closed
\* solid: every edge of every face is shared by exactly two faces.
C9_ClosedSolid ==
    (pc = "done" /\ full_field /\ w >= 2 /\ h >= 2) =>
        \A j \in 1..Len(tile_faces) : \A k \in 1..Len(tile_faces[j]) :
            Cardinality({j2 \in 1..Len(tile_faces) :
                \E k2 \in 1..Len(tile_faces[j2]) :
                    EdgeOf(tile_faces[j2], k2) = EdgeOf(tile_faces[j], k)}) = 2

\* the grid segments on the four boundary edges, as pairs of top-layer indices
BoundarySegments ==
    {<<x, x + 1>> : x \in 0..(w - 2)}
    \cup {<<(h - 1) * w + x, (h - 1) * w + x + 1>> : x \in 0..(w - 2)}
    \cup {<<y * w, (y + 1) * w>> : y \in 0..(h - 2)}
    \cup {<<y * w + w - 1, (y + 1) * w + w - 1>> : y \in 0..(h - 2)}

\* C10: in full-solid mode with w >= 2 and h >= 2, the faces after the
\* top-surface quads are exactly 2*(w-1) + 2*(h-1) side-wall quads, one for
\* each grid segment (a, b) of the four boundary edges and none else, each
\* the quad (a, b, b + h*w, a + h*w); then one bottom quad, last, whose
\* indices are the last four vertices (n-4, n-3, n-2, n-1).
C10_SidesAndBottom ==
    (pc = "done" /\ full_field /\ w >= 2 /\ h >= 2) =>
        LET nt == (w - 1) * (h - 1)
            n == Len(tile_vertices)
            nf == Len(tile_faces)
            sides == SubSeq(tile_faces, nt + 1, nf - 1)
            WallOf(s) == <<s[1], s[2], s[2] + h * w, s[1] + h * w>>
        IN /\ SubSeq(tile_faces, 1, nt) = top_faces
           /\ Len(sides) = 2 * (w - 1) + 2 * (h - 1)
           /\ \A s \in BoundarySegments :
                 Cardinality({j \in 1..Len(sides) : sides[j] = WallOf(s)}) = 1
           /\ \A j \in 1..Len(sides) : \E s \in BoundarySegments : sides[j] = WallOf(s)
           /\ tile_faces[nf] = <<n - 4, n - 3, n - 2, n - 1>>

C10_Witness == pc = "done" /\ full_field /\ w >= 3 /\ h >= 3 /\ Len(tile_faces) > 1

-----------------------------------------------------------------------------
(* Properties of apply_heightfield_to_obj, checked under SpecDisplace *)

\* a face holds an index that is no position 0..len-1 of the vertex array or
\* of the UV array
HasInvalidIndex ==
    \E f \in 1..Len(faces) : \E j \in 1..Len(faces[f]) :
        \/ faces[f][j] < 0
        \/ faces[f][j] >= Len(vertices)
        \/ faces[f][j] >= Len(uvs)

\* C7: whenever a face of the input mesh holds an index that is not a valid
\* position of the loaded vertex or UV array (file index 0 and negative file
\* indices included), the run fails with an index error and writes no mesh.
C7_InvalidIndexFails ==
    (dpc = "done" /\ HasInvalidIndex) => (error = "IndexError" /\ output_file = NoFile)

IsZeroVector(a) == \A c \in 1..3 : ~IsNaN(a[c]) /\ a[c].v = 0

\* the first three vertices of some face are collinear or coincident
HasDegenerateFace ==
    \E f \in 1..Len(faces) :
        /\ Len(faces[f]) >= 3
        /\ \A j \in 1..3 : 0 <= faces[f][j] /\ faces[f][j] < Len(vertices)
        /\ IsZeroVector(Cross(VSub(vertices[faces[f][2] + 1], vertices[faces[f][1] + 1]),
                              VSub(vertices[faces[f][3] + 1], vertices[faces[f][1] + 1])))

\* C8: when the first three vertices of a face are collinear or coincident,
\* the run aborts with an error: no vertex is displaced by an undefined
\* normal and no output mesh is written.
C8_DegenerateAborts ==
    (dpc = "done" /\ HasDegenerateFace) =>
        /\ error # "none"
        /\ \A i \in 1..Len(displaced_vertices) : \A c \in 1..3 :
              ~IsNaN(displaced_vertices[i][c])
        /\ output_file = NoFile

\* the heightmap value the code reads for the UV of vertex i (0-based)
SampleOf(i) ==
    LET hm == HeightmapArray(heightmap)
        uv == uvs[i + 1]
    IN hm[VIdx(uv[2], Len(hm)) + 1][UIdx(uv[1], Len(hm[1])) + 1]

\* the unit normal of face f, from the original positions of its first three
\* vertices
NormalOf(f) ==
    LET n == Len(vertices)
    IN calculate_face_normal(vertices[PyPos(n, faces[f][1])],
                             vertices[PyPos(n, faces[f][2])],
                             vertices[PyPos(n, faces[f][3])])

RECURSIVE SumContributions(_, _, _, _)
\* acc plus one contribution for every occurrence of i in faces f.., positions j..
SumContributions(i, f, j, acc) ==
    IF f > Len(faces) THEN acc
    ELSE IF j > Len(faces[f]) THEN SumContributions(i, f + 1, 1, acc)
    ELSE IF faces[f][j] = i
         THEN SumContributions(i, f, j + 1,
                VAdd(acc, VScale(VScale(NormalOf(f), SampleOf(i)), displacement_scale)))
         ELSE SumContributions(i, f, j + 1, acc)

\* C3: when the displacement loop has run to its end, the final position of
\* every vertex i is its loaded position plus, for every occurrence of i in
\* every face f, normal(f) * sample(uv[i]) * displacement_scale; a vertex
\* that occurs in no face is left where it was.
C3_AdditiveDisplacement ==
    (dpc = "done" /\ failed_at \in {"none", "save_obj"}) =>
        \A i \in 0..(Len(vertices) - 1) :
            displaced_vertices[i + 1] = SumContributions(i, 1, 1, vertices[i + 1])

-----------------------------------------------------------------------------
(* Properties of save_obj and load_obj, checked under SpecRoundTrip *)

SameVertices(a, b) ==
    /\ Len(a) = Len(b)
    /\ \A i \in 1..Len(a) : \A c \in 1..3 : FEq(a[i][c], b[i][c])

\* C4 as stated: for every vertex list and every face list, writing them
\* with save_obj and reading the file back with load_obj yields the same
\* vertices in the same order and identical face index tuples.
C4_Original ==
    iopc \in {"failed", "loaded"} =>
        /\ iopc = "loaded"
        /\ SameVertices(rt_vertices, io_vertices)
        /\ rt_faces = io_faces

AllQuads == \A j \in 1..Len(io_faces) : Len(io_faces[j]) = 4
NoNaN == \A i \in 1..Len(io_vertices) : \A c \in 1..3 : ~IsNaN(io_vertices[i][c])

\* C4 amended: for every vertex list without NaN coordinates and every face
\* list whose faces have exactly four indices, save_obj succeeds and load_obj
\* of the written file yields the same vertices in the same order and
\* identical face index tuples.
C4_RoundTripQuads ==
    (AllQuads /\ NoNaN) =>
        /\ iopc # "failed"
        /\ iopc = "loaded" =>
              /\ SameVertices(rt_vertices, io_vertices)
              /\ rt_faces = io_faces
              /\ rt_uvs = <<>>

C4_Witness ==
    /\ iopc = "loaded" /\ AllQuads /\ NoNaN
    /\ Len(io_vertices) = 2 /\ Len(io_faces) = 2
    /\ io_vertices[1][2].v < 0
    /\ io_faces[1][1] < 0 /\ io_faces[2][1] > 8

-----------------------------------------------------------------------------
(* Properties of UV sampling, checked under SpecSampling *)

\* C5: on a heightmap of width W >= 1 and height H >= 1, UV (0,0) reads row
\* H-1, column 0; UV (1,1) reads row 0, column W-1; and for every (u,v) in
\* [0,1]x[0,1] the column lies in 0..W-1 and the row in 0..H-1.
C5_UVSampling ==
    spc = "sampled" =>
        /\ 0 <= s_u_idx /\ s_u_idx <= s_w_map - 1
        /\ 0 <= s_v_idx /\ s_v_idx <= s_h_map - 1
        /\ (s_u = F(0) /\ s_v = F(0)) => (s_v_idx = s_h_map - 1 /\ s_u_idx = 0)
        /\ (s_u = F(1) /\ s_v = F(1)) => (s_v_idx = 0 /\ s_u_idx = s_w_map - 1)

C5_Witness ==
    spc = "sampled" /\ s_u = F(0) /\ s_v = F(0) /\ s_h_map >= 2 /\ s_w_map >= 2
        /\ s_v_idx = s_h_map - 1

====
